---------------------------- MODULE Spec2Model ----------------------------
(***************************************************************************)
(* PromptQL CSV processor: main reads the questions of a CSV file and, one *)
(* after the other, opens a streaming query per question and folds the     *)
(* streamed chunks (processQuery).  Three variants of the script exist:    *)
(*   "promptql-stream"  src/promptql-stream.ts (no spinner, no summaries)  *)
(*   "part_001"         src/unnamed/part_001   (spinner, both summaries)   *)
(*   "part_002"         src/unnamed/part_002   (spinner, inner try/catch)  *)
(* Strings are sequences of one-character strings; null and undefined are  *)
(* one-element sequences holding a token that is no character.             *)
(***************************************************************************)
EXTENDS Integers, Sequences, FiniteSets, TLC

\* ------------------------------------------------------------------ bounds
MaxRows == 2
MaxRunChunks == 4
MaxFoldChunks == 4
MaxPieces == 4
\* chunks delivered to the one stream of the table specification
MaxTableChunks == 3
\* data rows of a file of the CSV specification
MaxCsvRows == 3

\* ----------------------------------------------------------- JS values
Null == <<"null">>
Undefined == <<"undefined">>

\* JS truthiness of a string | null | undefined value
Truthy(v) == v # Null /\ v # Undefined /\ v # <<>>

\* v || ''
OrEmpty(v) == IF Truthy(v) THEN v ELSE <<>>

\* \s of a JS regular expression and of String.prototype.trim
IsSpace(c) == c \in {" ", "\n", "\t"}

RECURSIVE TrimStart(_)
TrimStart(s) ==
  IF s # <<>> /\ IsSpace(Head(s)) THEN TrimStart(Tail(s)) ELSE s

RECURSIVE TrimEnd(_)
TrimEnd(s) ==
  IF s # <<>> /\ IsSpace(s[Len(s)]) THEN TrimEnd(SubSeq(s, 1, Len(s) - 1)) ELSE s

Trim(s) == TrimEnd(TrimStart(s))

\* ------------------------------------------------ extractLastTwoSentences
ArtifactOpen == <<"<", "a", "r", "t", "i", "f", "a", "c", "t">>
ArtifactClose == <<"/", ">">>

StartsWithAt(s, i, p) ==
  /\ i + Len(p) - 1 <= Len(s)
  /\ SubSeq(s, i, i + Len(p) - 1) = p

\* /<artifact.*?\/>/ tried at position i: the index of the '>' that ends the
\* lazy match, or 0 when there is no match ('.' does not match a line break).
RECURSIVE MarkerClose(_, _)
MarkerClose(s, j) ==
  IF j + 1 > Len(s) THEN 0
  ELSE IF StartsWithAt(s, j, ArtifactClose) THEN j + 1
  ELSE IF s[j] = "\n" THEN 0
  ELSE MarkerClose(s, j + 1)

MarkerEnd(s, i) ==
  IF StartsWithAt(s, i, ArtifactOpen) THEN MarkerClose(s, i + Len(ArtifactOpen)) ELSE 0

\* .replace(/<artifact.*?\/>/g, ''): one left-to-right pass, no rescan
RECURSIVE RemoveMarkersFrom(_, _)
RemoveMarkersFrom(s, i) ==
  IF i > Len(s) THEN <<>>
  ELSE IF MarkerEnd(s, i) > 0 THEN RemoveMarkersFrom(s, MarkerEnd(s, i) + 1)
  ELSE <<s[i]>> \o RemoveMarkersFrom(s, i + 1)

RemoveMarkers(s) == RemoveMarkersFrom(s, 1)

\* .replace(/\s+/g, ' ')
RECURSIVE CollapseFrom(_, _)
CollapseFrom(s, i) ==
  IF i > Len(s) THEN <<>>
  ELSE IF IsSpace(s[i])
    THEN IF i > 1 /\ IsSpace(s[i - 1]) THEN CollapseFrom(s, i + 1)
         ELSE <<" ">> \o CollapseFrom(s, i + 1)
  ELSE <<s[i]>> \o CollapseFrom(s, i + 1)

CollapseSpaces(s) == CollapseFrom(s, 1)

CleanText(text) == CollapseSpaces(RemoveMarkers(Trim(text)))

sentenceEndingChars == {".", "!", "?"}

\* mutant: terminal punctuation ends a sentence whatever follows it
EndsSentence_AnyPunctuation(t, i) == t[i] \in sentenceEndingChars

EndsSentence(t, i) ==
  /\ t[i] \in sentenceEndingChars
  /\ (i = Len(t) \/ t[i + 1] = " ")

\* the character loop: sentences so far and the current sentence
RECURSIVE ScanSentences(_, _, _, _)
ScanSentences(t, i, sentences, currentSentence) ==
  IF i > Len(t)
    THEN IF Trim(currentSentence) # <<>>
           THEN Append(sentences, Trim(currentSentence))
           ELSE sentences
    ELSE IF EndsSentence(t, i)
           THEN ScanSentences(t, i + 1,
                              Append(sentences, Trim(Append(currentSentence, t[i]))), <<>>)
           ELSE ScanSentences(t, i + 1, sentences, Append(currentSentence, t[i]))

Sentences(text) == ScanSentences(CleanText(text), 1, <<>>, <<>>)

LastTwoOf(sentences) ==
  IF Len(sentences) = 0 THEN Null
  ELSE IF Len(sentences) = 1 THEN (IF Truthy(sentences[1]) THEN sentences[1] ELSE Null)
  ELSE sentences[Len(sentences) - 1] \o <<" ">> \o sentences[Len(sentences)]

extractLastTwoSentences(text) ==
  IF ~Truthy(text) \/ Trim(text) = <<>> THEN Null
  ELSE LastTwoOf(Sentences(text))

\* ------------------------------------------------------------ chunks
\* Artifact.data: a string, an array of rows, a plain object, or nothing; a row is
\* null, a number or a record with its own keys
TableData(shape, rows) == [shape |-> shape, rows |-> rows]
NullRow == [kind |-> "null", keys |-> {}]
NumberRow == [kind |-> "number", keys |-> {}]
RecordRow(keys) == [kind |-> "record", keys |-> keys]
NoData == TableData("missing", <<>>)
StringData == TableData("string", <<>>)
ObjectData == TableData("object", <<>>)
ArrayData(rows) == TableData("array", rows)

NoArtifact == [artifact_type |-> "none", identifier |-> "none", data |-> NoData]

MessageChunk(m) ==
  [type |-> "assistant_message_chunk", message |-> m, plan |-> Null, code |-> Null,
   error |-> Null, artifact |-> NoArtifact]

ActionChunk(m, p, c) ==
  [type |-> "assistant_action_chunk", message |-> m, plan |-> p, code |-> c,
   error |-> Null, artifact |-> NoArtifact]

ArtifactChunk(kind) ==
  [type |-> "artifact_update_chunk", message |-> Null, plan |-> Null, code |-> Null,
   error |-> Null,
   artifact |-> [artifact_type |-> kind, identifier |-> "id", data |-> StringData]]

TableChunk(data) ==
  [type |-> "artifact_update_chunk", message |-> Null, plan |-> Null, code |-> Null,
   error |-> Null,
   artifact |-> [artifact_type |-> "table", identifier |-> "id", data |-> data]]

CompleteChunk(m) ==
  [type |-> "complete", message |-> m, plan |-> Null, code |-> Null,
   error |-> Null, artifact |-> NoArtifact]

ErrorChunk(e) ==
  [type |-> "error_chunk", message |-> Null, plan |-> Null, code |-> Null,
   error |-> e, artifact |-> NoArtifact]

\* the chunks a stream of the whole-run specification draws from
RunChunks ==
  { MessageChunk(<<"a">>), ActionChunk(Null, <<"p">>, Null), ArtifactChunk("text"),
    CompleteChunk(<<"f">>), ErrorChunk(<<"e">>) }

\* the chunks a stream of the single-question specification draws from
FoldChunks ==
  { MessageChunk(<<"a">>), MessageChunk(<<" ">>), MessageChunk(Null),
    ActionChunk(<<"b">>, <<"p">>, Null), ActionChunk(<<"b">>, Null, Null),
    ActionChunk(Null, Null, <<"c">>), ArtifactChunk("text"),
    CompleteChunk(<<"f">>), CompleteChunk(<<"g">>), ErrorChunk(<<"e">>) }

\* payloads of table artifacts: well-formed, empty, missing, not an array, and
\* arrays with a null or a non-record row
TablePayloads ==
  { NoData, StringData, ObjectData, ArrayData(<<>>),
    ArrayData(<<RecordRow({"a", "b"}), RecordRow({"a"})>>),
    ArrayData(<<NullRow>>),
    ArrayData(<<RecordRow({"a"}), NullRow>>),
    ArrayData(<<RecordRow({"a"}), NumberRow>>),
    ArrayData(<<NumberRow, NullRow>>) }

\* the chunks a stream of the table specification draws from
TableChunks ==
  {TableChunk(data) : data \in TablePayloads}
    \cup {MessageChunk(<<"a">>), CompleteChunk(<<"f">>)}

\* ------------------------------------------------------------- state
VARIABLES
  variant,                  \* which of the three scripts runs
  csvFilePath,              \* process.argv[2]
  csvRows,                  \* the data rows of the file, by column name
  csvFails,                 \* "read": the file cannot be read; "parse": its content
                            \* cannot be parsed; "no" otherwise
  mainPc,                   \* where main is
  exitCode,                 \* process.exit code, 0 while none
  questions,                \* main: questions
  qi,                       \* main: position of the for-of loop in questions
  results,                  \* main: results
  spinning,                 \* spinner.isSpinning
  isOutputting,             \* module-level isOutputting
  finalMessage,             \* processQuery locals
  artifactTimestamps,
  messageBetweenArtifacts,
  lastArtifactTime,
  betweenArtifactsMessage,
  allStreamedText,
  display,                  \* terminal writes of the last step, each with the spinner state at the write
  openStreams,              \* positions of the questions whose queryStream promise is pending
  opened,                   \* the prompts queryStream was called with, in call order
  delivered,                \* chunks the callback has handled on the latest stream
  totalDelivered,           \* chunks handled over the run
  streamLog,                \* per ended stream: how it ended and what it had delivered
  handlerThrew,             \* the callback threw while handling the latest chunk
  finalOutputs,             \* per opened stream: final-output blocks written so far
  exInput,                  \* extractLastTwoSentences applied on its own
  exOutput,
  exAgain,
  exPc

foldVars == <<finalMessage, artifactTimestamps, messageBetweenArtifacts, lastArtifactTime,
              betweenArtifactsMessage, allStreamedText>>
csvVars == <<csvFilePath, csvRows, csvFails>>
exVars == <<exInput, exOutput, exAgain, exPc>>
mainVars == <<mainPc, exitCode, questions, qi, results>>
streamVars == <<openStreams, opened, delivered, totalDelivered, streamLog, handlerThrew,
                finalOutputs>>
vars == <<variant, csvVars, mainVars, spinning, isOutputting, foldVars, display,
          streamVars, exVars>>

Variants == {"promptql-stream", "part_001", "part_002"}
HasSpinner == variant \in {"part_001", "part_002"}

\* one terminal write, with spinner.isSpinning at the moment of the write
Write(kind, spin) == [kind |-> kind, spinning |-> spin]

\* Date.now() in the chunk handler: milliseconds since the epoch, positive and
\* never decreasing; the handler only tests it against 0
DateNow == Len(delivered) + 1

HasType(seq, t) == \E k \in 1..Len(seq) : seq[k].type = t

StreamSummary(outcome) ==
  [outcome |-> outcome,
   errorChunk |-> HasType(delivered, "error_chunk"),
   complete |-> HasType(delivered, "complete")]

\* ----------------------------------------------- script entry and main
\* const csvFilePath = process.argv[2]; if (!csvFilePath) { ...; process.exit(1) }
Entry ==
  /\ mainPc = "entry"
  /\ IF ~Truthy(csvFilePath)
       THEN /\ display' = <<Write("usage_error", spinning)>>
            /\ exitCode' = 1
            /\ mainPc' = "exited"
       ELSE /\ display' = IF variant = "part_002"
                            THEN <<Write("starting", spinning), Write("endpoint", spinning)>>
                            ELSE <<>>
            /\ exitCode' = exitCode
            /\ mainPc' = "parse"
  /\ UNCHANGED <<variant, csvVars, questions, qi, results, spinning, isOutputting,
                 foldVars, streamVars, exVars>>

\* one data row under parse({ columns: true }): its fields by column name; a
\* field is Undefined when the header has no such column
Row(question, category) == [Question |-> question, Category |-> category]

\* parse({ trim: true }): the field without the whitespace around it
ParsedField(field) == IF field = Undefined THEN Undefined ELSE Trim(field)

\* mutant: blank Question fields are pushed too
PushesQuestion_AnyString(row) == row.Question # Undefined

\* if (row.Question)
PushesQuestion(row) == Truthy(ParsedField(row.Question))

\* the 'data' handler of parseCsvFile over all rows: if (row.Question) push
RECURSIVE CollectQuestions(_)
CollectQuestions(rows) ==
  IF rows = <<>> THEN <<>>
  ELSE (IF PushesQuestion(Head(rows)) THEN <<ParsedField(Head(rows).Question)>> ELSE <<>>)
         \o CollectQuestions(Tail(rows))

\* mutant: a parse error ends the rows and the promise resolves with the
\* questions read so far
SettlesOnParseError_Resolves == "resolved"

\* .on('error', reject)
SettlesOnParseError == "rejected"

\* await parseCsvFile(csvFilePath): resolves on 'end', rejects on the parser's
\* 'error', and the rejection reaches main's catch, which exits with code 1;
\* the read stream has no 'error' listener, so an unreadable file ends the
\* process as an uncaught exception, with code 1
ParseCsv ==
  /\ mainPc = "parse"
  /\ IF csvFails = "read"
       THEN /\ display' = <<Write("uncaught_error", spinning)>>
            /\ exitCode' = 1
            /\ mainPc' = "exited"
            /\ UNCHANGED questions
       ELSE IF csvFails = "parse" /\ SettlesOnParseError = "rejected"
       THEN /\ display' = <<Write("top_error", spinning)>>
            /\ exitCode' = 1
            /\ mainPc' = "exited"
            /\ UNCHANGED questions
       ELSE /\ questions' = CollectQuestions(csvRows)
            /\ display' = <<>>
            /\ exitCode' = exitCode
            /\ mainPc' = "loop"
  /\ UNCHANGED <<variant, csvVars, qi, results, spinning, isOutputting,
                 foldVars, streamVars, exVars>>

\* mutant: processQuery is not awaited, the loop goes on while a stream is pending
AwaitsQuery_NotAwaited == mainPc \in {"loop", "streaming"}

\* main is at the head of the for-of loop: the previous processQuery was awaited
AwaitsQuery == mainPc = "loop"

\* mutant: a question whose stream delivered an error chunk is asked again
IteratorNext_RetriesError(i) ==
  IF i > 0 /\ streamLog # <<>> /\ streamLog[Len(streamLog)].errorChunk THEN i ELSE i + 1

\* the position the for-of iterator yields next
IteratorNext(i) == i + 1

\* processQuery up to the call of client.queryStream
OpenStream ==
  /\ AwaitsQuery
  /\ IteratorNext(qi) <= Len(questions)
  /\ qi' = IteratorNext(qi)
  /\ finalMessage' = Null
  /\ artifactTimestamps' = <<>>
  /\ messageBetweenArtifacts' = <<>>
  /\ lastArtifactTime' = 0
  /\ betweenArtifactsMessage' = Null
  /\ allStreamedText' = <<>>
  /\ spinning' = FALSE
  /\ display' = <<Write("processing_query", FALSE)>>
  /\ openStreams' = openStreams \cup {qi'}
  /\ opened' = Append(opened, questions[qi'])
  /\ delivered' = <<>>
  /\ handlerThrew' = FALSE
  /\ finalOutputs' = Append(finalOutputs, 0)
  /\ mainPc' = "streaming"
  /\ UNCHANGED <<variant, csvVars, exitCode, questions, results, isOutputting,
                 totalDelivered, streamLog, exVars>>

\* the for-of loop is exhausted: main returns
LoopEnd ==
  /\ AwaitsQuery
  /\ IteratorNext(qi) > Len(questions)
  /\ mainPc' = "done"
  /\ display' = <<>>
  /\ UNCHANGED <<variant, csvVars, exitCode, questions, qi, results, spinning,
                 isOutputting, foldVars, streamVars, exVars>>

\* await new Promise(resolve => setTimeout(resolve, ...)) between queries
Pause ==
  /\ mainPc = "pause"
  /\ mainPc' = "loop"
  /\ display' = <<>>
  /\ UNCHANGED <<variant, csvVars, exitCode, questions, qi, results, spinning,
                 isOutputting, foldVars, streamVars, exVars>>

\* ------------------------------------------- the chunk handler (fold)
\* if (spinner.isSpinning) spinner.stop()
StopSpinner(spin) == FALSE

\* displayStreamingMessage: writes only a truthy message
displayStreamingMessage(message, spin) ==
  IF Truthy(message) THEN <<Write("stream_text", spin)>> ELSE <<>>

\* mutant: the new text goes in front of the buffer
AppendStreamed_Prepends(message) ==
  IF Truthy(message) THEN message \o allStreamedText ELSE allStreamedText

\* if (chunk.message) { allStreamedText += chunk.message }
AppendStreamed(message) ==
  IF Truthy(message) THEN allStreamedText \o message ELSE allStreamedText

\* mutant: text is collected before the first artifact too
CollectBetween_Always(message) == messageBetweenArtifacts \o OrEmpty(message)

\* if (lastArtifactTime > 0) { messageBetweenArtifacts += chunk.message || '' }
CollectBetween(message) ==
  IF lastArtifactTime > 0
    THEN messageBetweenArtifacts \o OrEmpty(message)
    ELSE messageBetweenArtifacts

\* case 'assistant_message_chunk'
HandleMessageChunk(chunk) ==
  /\ chunk.type = "assistant_message_chunk"
  /\ spinning' = StopSpinner(spinning)
  /\ allStreamedText' = AppendStreamed(chunk.message)
  /\ messageBetweenArtifacts' = CollectBetween(chunk.message)
  /\ display' = displayStreamingMessage(chunk.message, spinning')
  /\ UNCHANGED <<finalMessage, artifactTimestamps, lastArtifactTime,
                 betweenArtifactsMessage, isOutputting>>

\* mutant: an action chunk's message does not stop the spinner
SpinnerAfterActionMessage_KeepsSpinning(chunk) == spinning

\* the spinner after the first half of case 'assistant_action_chunk':
\* if (chunk.message) { if (spinner.isSpinning) spinner.stop(); ... }
SpinnerAfterActionMessage(chunk) ==
  IF Truthy(chunk.message) THEN StopSpinner(spinning) ELSE spinning

\* if (chunk.plan || chunk.code)
StartsWork(chunk) == Truthy(chunk.plan) \/ Truthy(chunk.code)

\* case 'assistant_action_chunk'
HandleActionChunk(chunk) ==
  /\ chunk.type = "assistant_action_chunk"
  /\ allStreamedText' =
       IF Truthy(chunk.message) THEN AppendStreamed(chunk.message) ELSE allStreamedText
  /\ messageBetweenArtifacts' =
       IF Truthy(chunk.message) THEN CollectBetween(chunk.message)
       ELSE messageBetweenArtifacts
  /\ spinning' = IF StartsWork(chunk) THEN TRUE ELSE SpinnerAfterActionMessage(chunk)
  /\ display' =
       (IF Truthy(chunk.message)
          THEN displayStreamingMessage(chunk.message, SpinnerAfterActionMessage(chunk))
          ELSE <<>>)
       \o (IF StartsWork(chunk) /\ ~SpinnerAfterActionMessage(chunk)
             THEN <<Write("line_break", SpinnerAfterActionMessage(chunk))>>
             ELSE <<>>)
  /\ UNCHANGED <<finalMessage, artifactTimestamps, lastArtifactTime,
                 betweenArtifactsMessage, isOutputting>>

\* displayTableArtifact: "placeholder" when the guard returns early, "throws" when
\* forEach is not a function of the payload or row[header] reads a null row,
\* "grid" otherwise
displayTableArtifact(tableData) ==
  IF tableData.shape = "missing" THEN "placeholder"
  ELSE IF tableData.shape = "object" THEN "placeholder"
  ELSE IF tableData.shape = "string" THEN "throws"
  ELSE IF Len(tableData.rows) = 0 THEN "placeholder"
  ELSE IF tableData.rows[1].kind = "null" THEN "placeholder"
  ELSE LET headers == tableData.rows[1].keys
       IN IF headers # {} /\ \E k \in 2..Len(tableData.rows) : tableData.rows[k].kind = "null"
            THEN "throws"
            ELSE "grid"

\* displayArtifact does not reach its last two statements
ArtifactThrows(artifact) ==
  artifact.artifact_type = "table" /\ displayTableArtifact(artifact.data) = "throws"

\* displayArtifact: the header, then the body by artifact_type
displayArtifact(artifact, spin) ==
  <<Write("artifact", spin)>>
    \o (IF artifact.artifact_type # "table" THEN <<>>
        ELSE IF displayTableArtifact(artifact.data) = "grid"
          THEN <<Write("table_grid", spin)>>
        ELSE IF displayTableArtifact(artifact.data) = "placeholder"
          THEN <<Write("table_placeholder", spin)>>
        ELSE <<>>)

\* if (artifactTimestamps.length >= 2), after the push
SavesBetween(timestamps) == Len(timestamps) >= 2

\* case 'artifact_update_chunk'
HandleArtifactChunk(chunk) ==
  /\ chunk.type = "artifact_update_chunk"
  /\ spinning' = StopSpinner(spinning)
  /\ artifactTimestamps' = Append(artifactTimestamps, DateNow)
  /\ IF SavesBetween(artifactTimestamps')
       THEN /\ betweenArtifactsMessage' = Trim(messageBetweenArtifacts)
            /\ messageBetweenArtifacts' = <<>>
       ELSE UNCHANGED <<betweenArtifactsMessage, messageBetweenArtifacts>>
  /\ lastArtifactTime' = DateNow
  /\ display' = displayArtifact(chunk.artifact, spinning')
  /\ isOutputting' = IF ArtifactThrows(chunk.artifact) THEN isOutputting ELSE TRUE
  /\ UNCHANGED <<finalMessage, allStreamedText>>

\* mutant: only the first complete chunk of a stream sets the final message
CompleteFinalMessage_FirstWins(chunk) ==
  IF HasType(delivered, "complete") THEN finalMessage ELSE chunk.message

\* finalMessage = chunk.message
CompleteFinalMessage(chunk) == chunk.message

\* case 'complete'
HandleCompleteChunk(chunk) ==
  /\ chunk.type = "complete"
  /\ spinning' = StopSpinner(spinning)
  /\ finalMessage' = CompleteFinalMessage(chunk)
  /\ display' = <<>>
  /\ UNCHANGED <<artifactTimestamps, messageBetweenArtifacts, lastArtifactTime,
                 betweenArtifactsMessage, allStreamedText, isOutputting>>

\* mutant: the error text is taken for the final message
HandleErrorChunk_SetsFinalMessage(chunk) ==
  /\ chunk.type = "error_chunk"
  /\ spinning' = StopSpinner(spinning)
  /\ finalMessage' = chunk.error
  /\ display' = IF Truthy(chunk.error) THEN <<Write("error_chunk", spinning')>> ELSE <<>>
  /\ UNCHANGED <<artifactTimestamps, messageBetweenArtifacts, lastArtifactTime,
                 betweenArtifactsMessage, allStreamedText, isOutputting>>

\* case 'error_chunk'
HandleErrorChunk(chunk) ==
  /\ chunk.type = "error_chunk"
  /\ spinning' = StopSpinner(spinning)
  /\ display' = IF Truthy(chunk.error) THEN <<Write("error_chunk", spinning')>> ELSE <<>>
  /\ UNCHANGED <<foldVars, isOutputting>>

\* the callback of part_001 and part_002: switch (chunk.type)
HandleChunkSpinner(chunk) ==
  \/ HandleMessageChunk(chunk)
  \/ HandleActionChunk(chunk)
  \/ HandleArtifactChunk(chunk)
  \/ HandleCompleteChunk(chunk)
  \/ HandleErrorChunk(chunk)

\* the callback of promptql-stream.ts: an if/else chain, no spinner, no buffers
HandleChunkPlain(chunk) ==
  /\ finalMessage' = IF chunk.type = "complete" THEN chunk.message ELSE finalMessage
  /\ display' =
       IF chunk.type \in {"assistant_message_chunk", "assistant_action_chunk"}
         THEN displayStreamingMessage(chunk.message, spinning)
       ELSE IF chunk.type = "artifact_update_chunk"
         THEN displayArtifact(chunk.artifact, spinning)
       ELSE IF chunk.type = "error_chunk" /\ Truthy(chunk.error)
         THEN <<Write("error_chunk", spinning)>>
       ELSE <<>>
  /\ UNCHANGED <<spinning, isOutputting, artifactTimestamps, messageBetweenArtifacts,
                 lastArtifactTime, betweenArtifactsMessage, allStreamedText>>

\* the final-output blocks among writes, added to the count of the latest stream
CountFinalOutputs(counts, writes) ==
  LET n == Cardinality({k \in 1..Len(writes) : writes[k].kind = "final_output"})
  IN [counts EXCEPT ![Len(counts)] = @ + n]

\* the stream is pending and the handler returned from the previous chunk
AcceptsChunk == mainPc = "streaming"

\* queryStream hands one chunk to the callback
DeliverChunk(chunks, maxChunks) ==
  /\ AcceptsChunk
  /\ totalDelivered < maxChunks
  /\ \E chunk \in chunks :
       /\ IF HasSpinner THEN HandleChunkSpinner(chunk) ELSE HandleChunkPlain(chunk)
       /\ delivered' = Append(delivered, chunk)
       /\ handlerThrew' = (chunk.type = "artifact_update_chunk" /\ ArtifactThrows(chunk.artifact))
  /\ totalDelivered' = totalDelivered + 1
  /\ finalOutputs' = CountFinalOutputs(finalOutputs, display')
  /\ UNCHANGED <<variant, csvVars, mainVars, openStreams, opened, streamLog, exVars>>

\* ------------------------------------------------- the end of a stream
\* displayFinalOutput (part_001 stops the spinner first; promptql-stream.ts has none)
displayFinalOutput(message, spin) == <<Write("final_output", spin)>>

\* what processQuery prints after the stream: the final output, then the two
\* optional blocks
PostStreamDisplay ==
  IF variant = "part_001"
    THEN displayFinalOutput(finalMessage, StopSpinner(spinning))
         \o (IF Truthy(betweenArtifactsMessage)
               THEN <<Write("between_artifacts", StopSpinner(spinning))>> ELSE <<>>)
         \o (IF Truthy(extractLastTwoSentences(allStreamedText))
               THEN <<Write("last_two_sentences", StopSpinner(spinning))>> ELSE <<>>)
  ELSE IF variant = "part_002" THEN <<>>
  ELSE displayFinalOutput(finalMessage, spinning)

\* what main pushes on results for the question just processed
QueryResult ==
  [question |-> questions[qi],
   finalMessage |-> finalMessage,
   betweenArtifactsMessage |-> betweenArtifactsMessage,
   lastTwoSentencesMessage |->
     IF variant = "part_001" THEN extractLastTwoSentences(allStreamedText) ELSE Undefined]

\* the queryStream promise resolves: the rest of processQuery, and main's push
StreamResolve ==
  /\ mainPc = "streaming"
  /\ spinning' = IF HasSpinner THEN StopSpinner(spinning) ELSE spinning
  /\ display' = PostStreamDisplay
  /\ results' = IF HasSpinner THEN Append(results, QueryResult) ELSE results
  /\ openStreams' = openStreams \ {qi}
  /\ streamLog' = Append(streamLog, StreamSummary("resolved"))
  /\ mainPc' = "pause"
  /\ finalOutputs' = CountFinalOutputs(finalOutputs, display')
  /\ UNCHANGED <<variant, csvVars, exitCode, questions, qi, isOutputting, foldVars,
                 opened, delivered, totalDelivered, handlerThrew, exVars>>

\* the queryStream promise rejects: processQuery throws out of the for-of loop
\* into the nearest catch of main (part_002: the inner one, which only logs;
\* the others: the outer one, which exits with code 1)
StreamReject ==
  /\ mainPc = "streaming"
  /\ openStreams' = openStreams \ {qi}
  /\ streamLog' = Append(streamLog, StreamSummary("rejected"))
  /\ IF variant = "part_002"
       THEN /\ display' = <<Write("query_error", spinning)>>
            /\ exitCode' = exitCode
            /\ mainPc' = "done"
       ELSE /\ display' = <<Write("top_error", spinning)>>
            /\ exitCode' = 1
            /\ mainPc' = "exited"
  /\ finalOutputs' = CountFinalOutputs(finalOutputs, display')
  /\ UNCHANGED <<variant, csvVars, questions, qi, results, spinning, isOutputting,
                 foldVars, opened, delivered, totalDelivered, handlerThrew, exVars>>

\* ------------------------------------ extractLastTwoSentences on its own
Pieces ==
  { <<"a">>, <<".">>, <<"?">>, <<"!">>, <<" ">>, <<"\n">>, ArtifactOpen, ArtifactClose }

\* texts with whole words and more sentences than PieceStrings reaches
EmptyText == <<>>
HelloWorld == <<"H", "e", "l", "l", "o", " ", "w", "o", "r", "l", "d">>
ThreeSentences == <<"A", ".", " ", "B", ".", " ", "C", ".">>
PiToday ==
  <<"P", "i", " ", "i", "s", " ", "3", ".", "1", "4", " ", "t", "o", "d", "a", "y", ".">>
SampleTexts == {EmptyText, HelloWorld, ThreeSentences, PiToday}

RECURSIVE PieceStrings(_)
PieceStrings(n) ==
  IF n = 0 THEN {<<>>}
  ELSE LET shorter == PieceStrings(n - 1)
       IN shorter \cup {s \o p : s \in shorter, p \in Pieces}

ExtractOnce ==
  /\ exPc = "input"
  /\ exOutput' = extractLastTwoSentences(exInput)
  /\ exPc' = "once"
  /\ UNCHANGED <<variant, csvVars, mainVars, spinning, isOutputting, foldVars, display,
                 streamVars, exInput, exAgain>>

ExtractAgain ==
  /\ exPc = "once"
  /\ exOutput # Null
  /\ exAgain' = extractLastTwoSentences(exOutput)
  /\ exPc' = "twice"
  /\ UNCHANGED <<variant, csvVars, mainVars, spinning, isOutputting, foldVars, display,
                 streamVars, exInput, exOutput>>

\* ----------------------------------------------------- specifications
CsvPath == <<"q", ".", "c", "s", "v">>

RECURSIVE RowSeqs(_, _)
RowSeqs(fields, n) ==
  IF n = 0 THEN {<<>>}
  ELSE LET shorter == RowSeqs(fields, n - 1)
       IN shorter \cup {Append(r, f) : r \in shorter, f \in fields}

InitProgram ==
  /\ variant \in Variants
  /\ mainPc = "entry"
  /\ exitCode = 0
  /\ questions = <<>>
  /\ qi = 0
  /\ results = <<>>
  /\ spinning = FALSE
  /\ isOutputting = FALSE
  /\ finalMessage = Null
  /\ artifactTimestamps = <<>>
  /\ messageBetweenArtifacts = <<>>
  /\ lastArtifactTime = 0
  /\ betweenArtifactsMessage = Null
  /\ allStreamedText = <<>>
  /\ display = <<>>
  /\ openStreams = {}
  /\ opened = <<>>
  /\ delivered = <<>>
  /\ totalDelivered = 0
  /\ streamLog = <<>>
  /\ handlerThrew = FALSE
  /\ finalOutputs = <<>>

InitNoExtract ==
  /\ exInput = <<>>
  /\ exOutput = Null
  /\ exAgain = Null
  /\ exPc = "off"

\* a whole run: any argument, any small CSV file
Init ==
  /\ InitProgram
  /\ InitNoExtract
  /\ csvFilePath \in {Undefined, CsvPath}
  /\ csvFails \in {"no", "read", "parse"}
  /\ csvRows \in RowSeqs({Row(<<>>, <<>>), Row(<<"q">>, <<>>)}, MaxRows)

Next ==
  \/ Entry
  \/ ParseCsv
  \/ OpenStream
  \/ DeliverChunk(RunChunks, MaxRunChunks)
  \/ StreamResolve
  \/ StreamReject
  \/ Pause
  \/ LoopEnd

Spec == Init /\ [][Next]_vars

\* a run over one question, with streams of more kinds of chunks
InitFold ==
  /\ InitProgram
  /\ InitNoExtract
  /\ csvFilePath = CsvPath
  /\ csvFails = "no"
  /\ csvRows = <<Row(<<"q">>, <<>>)>>

NextFold ==
  \/ Entry
  \/ ParseCsv
  \/ OpenStream
  \/ DeliverChunk(FoldChunks, MaxFoldChunks)
  \/ StreamResolve
  \/ StreamReject
  \/ Pause
  \/ LoopEnd

SpecFold == InitFold /\ [][NextFold]_vars

\* parseCsvFile over files with and without a Question column, blank and padded
\* fields, and a second column
QuestionFields == {<<>>, <<" ">>, <<"q">>, <<" ", "r">>, <<"s", " ">>}
CategoryFields == {<<>>, <<"x">>}
CsvFiles(n) ==
  RowSeqs({Row(q, c) : q \in QuestionFields, c \in CategoryFields}, n)
    \cup RowSeqs({Row(Undefined, c) : c \in CategoryFields}, n)

InitCsv ==
  /\ InitProgram
  /\ InitNoExtract
  /\ csvFilePath = CsvPath
  /\ csvFails \in {"no", "read", "parse"}
  /\ csvRows \in CsvFiles(MaxCsvRows)

NextCsv ==
  \/ Entry
  \/ ParseCsv

SpecCsv == InitCsv /\ [][NextCsv]_vars

\* a run over one question whose stream carries table artifacts of every payload
NextTable ==
  \/ Entry
  \/ ParseCsv
  \/ OpenStream
  \/ DeliverChunk(TableChunks, MaxTableChunks)
  \/ StreamResolve
  \/ StreamReject
  \/ Pause
  \/ LoopEnd

SpecTable == InitFold /\ [][NextTable]_vars

\* extractLastTwoSentences applied to a text, then to its own result
InitExtract ==
  /\ InitProgram
  /\ variant = "part_001"
  /\ mainPc = "entry"
  /\ csvFilePath = CsvPath
  /\ csvFails = "no"
  /\ csvRows = <<>>
  /\ exInput \in PieceStrings(MaxPieces) \cup SampleTexts
  /\ exOutput = Null
  /\ exAgain = Null
  /\ exPc = "input"

NextExtract ==
  \/ ExtractOnce
  \/ ExtractAgain

SpecExtract == InitExtract /\ [][NextExtract]_vars

\* ===================================================================
\* Claims
\* ===================================================================
IsTextChunk(chunk) == chunk.type \in {"assistant_message_chunk", "assistant_action_chunk"}

\* the message text a chunk carries, '' when it carries none
ChunkText(chunk) ==
  IF IsTextChunk(chunk) /\ chunk.message # Null THEN chunk.message ELSE <<>>

\* the texts of seq[from..to], concatenated in order
RECURSIVE TextOf(_, _, _)
TextOf(seq, from, to) ==
  IF from > to THEN <<>> ELSE ChunkText(seq[from]) \o TextOf(seq, from + 1, to)

ArtifactPositions(seq) == {k \in 1..Len(seq) : seq[k].type = "artifact_update_chunk"}

Max(S) == CHOOSE m \in S : \A n \in S : n <= m

\* the trimmed text between the second-to-last and the last artifact of seq
TextBetweenLastTwo(seq) ==
  LET arts == ArtifactPositions(seq)
  IN IF Cardinality(arts) < 2 THEN Null
     ELSE LET last == Max(arts)
              prev == Max(arts \ {last})
          IN Trim(TextOf(seq, prev + 1, last - 1))

\* processQuery has returned to main from the latest stream (part_001, part_002)
ReturnedLatest ==
  /\ HasSpinner
  /\ mainPc \in {"pause", "loop", "done"}
  /\ streamLog # <<>>
  /\ streamLog[Len(streamLog)].outcome = "resolved"

\* C1: during and after the fold, betweenArtifactsMessage (and the value that
\* processQuery returns) is the trimmed concatenation of the texts delivered
\* strictly between the second-to-last and the last artifact chunk, and null
\* while fewer than two artifact chunks have been delivered.
C1_BetweenLastTwoArtifacts ==
  HasSpinner =>
    /\ betweenArtifactsMessage = TextBetweenLastTwo(delivered)
    /\ ReturnedLatest =>
         results[Len(results)].betweenArtifactsMessage = TextBetweenLastTwo(delivered)

\* a returned, non-empty value, of a stream that also had text before its first
\* artifact
C1_Witness ==
  /\ ReturnedLatest
  /\ Truthy(results[Len(results)].betweenArtifactsMessage)
  /\ ChunkText(delivered[1]) # <<>>
  /\ TextOf(delivered, 1, Len(delivered)) # results[Len(results)].betweenArtifactsMessage

\* C4: allStreamedText is the concatenation, in arrival order, of the non-null
\* message texts of the message and action chunks delivered so far; the other
\* chunk types contribute nothing.
C4_AllStreamedText ==
  HasSpinner => allStreamedText = TextOf(delivered, 1, Len(delivered))

\* an ended stream with text from both chunk types and a chunk of another type
C4_Witness ==
  /\ ReturnedLatest
  /\ \E i, j, k \in 1..Len(delivered) :
       /\ i < j
       /\ delivered[i].type = "assistant_message_chunk" /\ Truthy(delivered[i].message)
       /\ delivered[j].type = "assistant_action_chunk" /\ Truthy(delivered[j].message)
       /\ ~IsTextChunk(delivered[k])
  /\ Len(allStreamedText) >= 2

\* the message of the last complete chunk of seq, null when it has none
LastCompleteMessage(seq) ==
  LET completes == {k \in 1..Len(seq) : seq[k].type = "complete"}
  IN IF completes = {} THEN Null ELSE seq[Max(completes)].message

\* this step hands a chunk to the handler of a stream that has already
\* handled a complete chunk
DeliversAfterComplete ==
  /\ HasType(delivered, "complete")
  /\ Len(delivered') = Len(delivered) + 1

\* C3 as claimed: once a complete chunk has been handled, no later chunk of the
\* same stream changes finalMessage, allStreamedText, messageBetweenArtifacts or
\* betweenArtifactsMessage, starts the spinner, or writes to the terminal.
C3_CompleteEndsProcessing ==
  [][DeliversAfterComplete =>
       /\ UNCHANGED <<finalMessage, allStreamedText, messageBetweenArtifacts,
                      betweenArtifactsMessage>>
       /\ spinning' => spinning
       /\ display' = <<>>]_vars

\* C3 as amended: a complete chunk only records its message; the fold goes on,
\* so finalMessage is always the message of the last complete chunk handled
\* (null before any), and a text chunk handled after a complete chunk is still
\* written to the terminal and an action chunk with a plan or code handled
\* after it still starts the spinner.
C3_LastCompleteWins ==
  /\ finalMessage = LastCompleteMessage(delivered)
  /\ (mainPc = "streaming" /\ delivered # <<>>) =>
       LET chunk == delivered[Len(delivered)]
       IN /\ (IsTextChunk(chunk) /\ Truthy(chunk.message)) => display # <<>>
          /\ (HasSpinner /\ chunk.type = "assistant_action_chunk"
                /\ (Truthy(chunk.plan) \/ Truthy(chunk.code))) => spinning

\* a second complete chunk has replaced the first one's message, after a text
\* chunk that came between them was folded
C3_Witness ==
  /\ HasSpinner
  /\ mainPc = "streaming"
  /\ Len(delivered) = 3
  /\ delivered[1].type = "complete"
  /\ IsTextChunk(delivered[2]) /\ Truthy(delivered[2].message)
  /\ delivered[3].type = "complete"
  /\ delivered[3].message # delivered[1].message
  /\ finalMessage = delivered[3].message
  /\ allStreamedText = delivered[2].message

\* the handler has just returned from the latest chunk of a pending stream
JustHandled == HasSpinner /\ mainPc = "streaming" /\ delivered # <<>>

\* C6 as claimed: after the handler has processed a chunk that carries message
\* text, an artifact or an error, the spinner is not spinning.
C6_SpinnerStopsOnOutput ==
  JustHandled =>
    LET chunk == delivered[Len(delivered)]
    IN ((IsTextChunk(chunk) /\ Truthy(chunk.message))
          \/ chunk.type \in {"artifact_update_chunk", "error_chunk"}) => ~spinning

\* C6 as amended: after the handler has processed a message chunk, an artifact,
\* an error, or an action chunk with message text and neither plan nor code,
\* the spinner is not spinning; after an action chunk with a plan or code it
\* is spinning, whether or not the chunk carried message text.
C6_SpinnerAfterChunk ==
  JustHandled =>
    LET chunk == delivered[Len(delivered)]
        works == chunk.type = "assistant_action_chunk"
                   /\ (Truthy(chunk.plan) \/ Truthy(chunk.code))
    IN /\ works => spinning
       /\ (~works /\ (chunk.type \in {"assistant_message_chunk", "artifact_update_chunk",
                                       "error_chunk"}
                        \/ (chunk.type = "assistant_action_chunk" /\ Truthy(chunk.message))))
            => ~spinning

\* a spinning spinner was stopped by an action chunk that carried only text
C6_Witness ==
  /\ JustHandled
  /\ Len(delivered) >= 2
  /\ delivered[Len(delivered) - 1].type = "assistant_action_chunk"
  /\ Truthy(delivered[Len(delivered) - 1].code)
  /\ delivered[Len(delivered)].type = "assistant_action_chunk"
  /\ Truthy(delivered[Len(delivered)].message)
  /\ ~Truthy(delivered[Len(delivered)].plan)
  /\ ~spinning

Terminated == mainPc \in {"done", "exited"}

\* the stream of question k rejected
Rejected(k) == k \in 1..Len(streamLog) /\ streamLog[k].outcome = "rejected"

\* C2 as claimed: a rejected stream does not end the run; every question after
\* the one whose stream rejected still has its stream opened.
C2_RejectionDoesNotEndRun ==
  \A k \in 1..Len(questions) :
    Rejected(k) => /\ (Terminated => Len(opened) = Len(questions))
                   /\ (k < Len(questions) => exitCode = 0)

\* C5: at most one query stream is pending at any time; while one is pending
\* main is inside the processQuery of that question, every earlier stream has
\* ended and every earlier processQuery has returned its result to main.
C5_OneStreamAtATime ==
  /\ Cardinality(openStreams) <= 1
  /\ openStreams # {} =>
       /\ openStreams = {qi}
       /\ mainPc = "streaming"
       /\ Len(opened) = qi
       /\ Len(streamLog) = qi - 1
       /\ HasSpinner => Len(results) = qi - 1
  /\ openStreams = {} => Len(streamLog) = Len(opened)

\* the stream of the second question is pending after the first one was
\* drained of several chunks
C5_Witness ==
  /\ openStreams = {2}
  /\ Len(streamLog) = 1
  /\ streamLog[1].outcome = "resolved"
  /\ totalDelivered >= 2
  /\ delivered # <<>>

\* C7 as claimed: every terminal write happens while the spinner is stopped.
C7_NoWriteWhileSpinning ==
  \A k \in 1..Len(display) : ~display[k].spinning

\* the stream of question k delivered an error chunk and no complete chunk,
\* and ended normally
ErrorOnly(k) ==
  /\ k \in 1..Len(streamLog)
  /\ streamLog[k].outcome = "resolved"
  /\ streamLog[k].errorChunk
  /\ ~streamLog[k].complete

\* C8: an error chunk does not end the fold (the stream stays pending until
\* queryStream ends it); a stream that delivered an error chunk and no complete
\* chunk returns a null finalMessage; and the run goes on to open the stream of
\* the next question.
C8_ErrorChunkDoesNotStopRun ==
  /\ (delivered # <<>> /\ delivered[Len(delivered)].type = "error_chunk"
        /\ Len(streamLog) < Len(opened)) => (mainPc = "streaming" /\ openStreams = {qi})
  /\ \A k \in 1..Len(streamLog) :
       ErrorOnly(k) =>
         /\ HasSpinner => results[k].finalMessage = Null
         /\ (k = Len(streamLog) /\ Len(opened) = k) => finalMessage = Null
         /\ k < Len(questions) =>
              \/ Len(opened) > k
              \/ mainPc = "pause"
              \/ (mainPc = "loop" /\ ENABLED OpenStream)

\* the second stream was opened after the first delivered an error chunk,
\* then another chunk, and no complete chunk
C8_Witness ==
  /\ Len(questions) >= 2
  /\ ErrorOnly(1)
  /\ Len(opened) = 2
  /\ openStreams = {2}
  /\ totalDelivered >= 2

\* C9: the prompts queryStream was called with are a prefix of the extracted
\* questions, in order, one call per position of the list.
C9_NoRetries ==
  /\ Len(opened) <= Len(questions)
  /\ opened = SubSeq(questions, 1, Len(opened))
  /\ Len(opened) = qi

\* a run that ended on a rejected stream without asking again, after an
\* earlier stream with an error chunk was not asked again either
C9_Witness ==
  /\ Terminated
  /\ Len(streamLog) = 2
  /\ streamLog[1].errorChunk
  /\ streamLog[2].outcome = "rejected"
  /\ Len(opened) = 2

EndsWithTerminalPunctuation(s) == s # Null /\ s # <<>> /\ s[Len(s)] \in {".", "!", "?"}

\* C10 as claimed: when extract(x) is non-null and ends with '.', '!' or '?',
\* extract(extract(x)) = extract(x).
C10_ExtractIdempotent ==
  (exPc = "twice" /\ EndsWithTerminalPunctuation(exOutput)) => exAgain = exOutput

\* -------------------------------------------------------------------
\* The segmentation extractLastTwoSentences is specified by, stated on the
\* positions of the text rather than as a scan.
Min(S) == CHOOSE m \in S : \A n \in S : m <= n

\* the elements of a finite set of numbers, ascending
RECURSIVE Ascending(_)
Ascending(S) == IF S = {} THEN <<>> ELSE <<Min(S)>> \o Ascending(S \ {Min(S)})

\* positions of the "/" of a "/>" that can close a marker opened at the head
\* of s: no line break lies between the opening and it
RefMarkerCloses(s) ==
  {k \in (Len(ArtifactOpen) + 1)..(Len(s) - 1) :
     /\ s[k] = "/" /\ s[k + 1] = ">"
     /\ \A j \in (Len(ArtifactOpen) + 1)..(k - 1) : s[j] # "\n"}

RECURSIVE RefRemoveMarkers(_)
RefRemoveMarkers(s) ==
  IF s = <<>> THEN <<>>
  ELSE IF Len(s) >= Len(ArtifactOpen) /\ SubSeq(s, 1, Len(ArtifactOpen)) = ArtifactOpen
            /\ RefMarkerCloses(s) # {}
    THEN RefRemoveMarkers(SubSeq(s, Min(RefMarkerCloses(s)) + 2, Len(s)))
  ELSE <<Head(s)>> \o RefRemoveMarkers(Tail(s))

\* every run of whitespace becomes one space: the first character of each run
\* stays, as a space
RefCollapse(s) ==
  LET kept == Ascending({i \in 1..Len(s) : ~IsSpace(s[i]) \/ i = 1 \/ ~IsSpace(s[i - 1])})
  IN [n \in 1..Len(kept) |-> IF IsSpace(s[kept[n]]) THEN " " ELSE s[kept[n]]]

RefClean(text) == RefCollapse(RefRemoveMarkers(Trim(text)))

\* the segments of a cleaned text: it is cut after every '.', '!' or '?' that
\* is its last character or is followed by a space; what is left after the last
\* cut is a segment too unless it is blank; segments are trimmed
RefSegments(t) ==
  LET cuts == Ascending({i \in 1..Len(t) :
                           t[i] \in {".", "!", "?"} /\ (i = Len(t) \/ t[i + 1] = " ")})
      from(n) == IF n = 1 THEN 1 ELSE cuts[n - 1] + 1
      whole == [n \in 1..Len(cuts) |-> Trim(SubSeq(t, from(n), cuts[n]))]
      rest == Trim(SubSeq(t, from(Len(cuts) + 1), Len(t)))
  IN IF rest # <<>> THEN Append(whole, rest) ELSE whole

RefExtract(text) ==
  LET segments == RefSegments(RefClean(text))
      n == Len(segments)
  IN IF n = 0 THEN Null
     ELSE IF n = 1 THEN segments[1]
     ELSE segments[n - 1] \o <<" ">> \o segments[n]

TableJustHandled ==
  /\ mainPc = "streaming"
  /\ delivered # <<>>
  /\ delivered[Len(delivered)].type = "artifact_update_chunk"
  /\ delivered[Len(delivered)].artifact.artifact_type = "table"

\* C12 as claimed: displaying a table artifact, whatever its payload, writes
\* the grid or the placeholder 'Empty table or invalid data' and never raises
\* an error.
C12_TableDisplayNeverRaises ==
  TableJustHandled =>
    /\ ~handlerThrew
    /\ \E k \in 1..Len(display) : display[k].kind \in {"table_grid", "table_placeholder"}

\* the argument is missing, or the file cannot be read or parsed
ExtractionFails == ~Truthy(csvFilePath) \/ csvFails # "no"

\* C13: when the CSV path argument is missing or the file cannot be read or
\* parsed, no query stream is ever opened, main never holds a question list
\* (not even a partial one), and the run can only end with exit code 1.
C13_ExtractionFailureIsFatal ==
  ExtractionFails =>
    /\ opened = <<>>
    /\ openStreams = {}
    /\ questions = <<>>
    /\ mainPc \in {"entry", "parse", "exited"}
    /\ mainPc = "exited" => exitCode = 1

\* a file with a question in its first row failed to parse and the run exited
C13_Witness ==
  /\ csvFilePath = CsvPath
  /\ csvFails = "parse"
  /\ csvRows # <<>>
  /\ csvRows[1].Question = <<"q">>
  /\ mainPc = "exited"
  /\ exitCode = 1
  /\ opened = <<>>

\* the row has a Question field that is not blank
HasQuestion(row) == row.Question # Undefined /\ Trim(row.Question) # <<>>

\* the trimmed Question fields of the rows that have one, in row order
ExpectedQuestions(rows) ==
  LET kept == SelectSeq(rows, HasQuestion)
  IN [k \in 1..Len(kept) |-> Trim(kept[k].Question)]

\* the same rows with every other column blanked
QuestionColumnOnly(rows) == [k \in 1..Len(rows) |-> Row(rows[k].Question, <<>>)]

\* C14: parseCsvFile resolves to the trimmed non-empty Question fields of the
\* data rows in row order, as many as there are such rows; rows without a
\* Question value are skipped and the other columns do not affect the result.
C14_QuestionsAreNonEmptyFields ==
  (mainPc = "loop" /\ csvFails = "no") =>
    /\ questions = ExpectedQuestions(csvRows)
    /\ Len(questions) = Cardinality({k \in 1..Len(csvRows) : HasQuestion(csvRows[k])})
    /\ questions = CollectQuestions(QuestionColumnOnly(csvRows))

\* a padded field, a blank field and a plain field, with a second column
C14_Witness ==
  /\ mainPc = "loop"
  /\ csvRows = <<Row(<<" ", "r">>, <<"x">>), Row(<<" ">>, <<>>), Row(<<"q">>, <<>>)>>
  /\ questions = << <<"r">>, <<"q">> >>

\* stream k has ended and its promise resolved
EndedNormally(k) == k <= Len(streamLog) /\ streamLog[k].outcome = "resolved"

\* the last step wrote a final-output block
WroteFinalOutput == \E k \in 1..Len(display) : display[k].kind = "final_output"

\* C15 as claimed: the final-output block of a question is written exactly
\* once when its stream ends normally, and not at all before that: never
\* while its stream or another one is pending, so after every chunk display
\* of the question and before the next stream is opened.
C15_FinalOutputOncePerStream ==
  /\ \A k \in 1..Len(finalOutputs) : finalOutputs[k] = IF EndedNormally(k) THEN 1 ELSE 0
  /\ WroteFinalOutput => (mainPc = "pause" /\ openStreams = {})

=============================================================================
